---- MODULE Spec2Model ----
(***************************************************************************)
(* Model of src/modules/availability.py: the hotel room inventory kept in  *)
(* one CSV file, read with _safe_read_csv, searched with _match_rows,      *)
(* changed by decrement_room_availability / increment_room_availability    *)
(* and written back with _atomic_write_csv.                                *)
(*                                                                         *)
(* Text is a sequence of one-character strings.  A CSV file is a sequence  *)
(* of lines: line 1 is the header (a sequence of column names), every      *)
(* other line is a sequence of fields, one text per column (CSV quoting is *)
(* not modelled: a field is the text pandas hands back for it).            *)
(***************************************************************************)
EXTENDS Integers, Sequences, FiniteSets, TLC

\* ------------------------------------------------------------------ bounds
MaxRows == 2
MaxAmount == 2
MaxCalls == 2

\* ------------------------------------------------------------------ text
\* The status tokens of the source ('còn' = available, 'hết' = sold out),
\* written without diacritics.
Con == <<"c", "o", "n">>
Het == <<"h", "e", "t">>

\* A missing value (pandas NaN) in a text column of the data frame.
NaN == <<"NaN">>

\* str(NaN), what .astype(str) makes of a missing value.
NanText == <<"n", "a", "n">>

\* The field texts pandas.read_csv turns into NaN (its default na_values),
\* restricted to the characters of the model.
NaTokens == { <<>>, <<"N", "A">>, <<"N", "a", "N">>, <<"n", "a", "n">> }

DigitChars == <<"0", "1", "2", "3", "4", "5", "6", "7", "8", "9">>

IsDigit(c) == \E i \in 1..10 : DigitChars[i] = c

DigitVal(c) == (CHOOSE i \in 1..10 : DigitChars[i] = c) - 1

IsSpace(c) == c = " "

\* str.lower() on one character (the upper-case letters of the model).
LowerChar(c) ==
  CASE c = "G" -> "g"
    [] c = "H" -> "h"
    [] c = "N" -> "n"
    [] c = "A" -> "a"
    [] OTHER -> c

StrLower(s) == [i \in 1..Len(s) |-> LowerChar(s[i])]

RECURSIVE LStrip(_)
LStrip(s) == IF s # <<>> /\ IsSpace(Head(s)) THEN LStrip(Tail(s)) ELSE s

RECURSIVE RStrip(_)
RStrip(s) ==
  IF s # <<>> /\ IsSpace(s[Len(s)]) THEN RStrip(SubSeq(s, 1, Len(s) - 1)) ELSE s

\* str.strip()
Strip(s) == RStrip(LStrip(s))

\* .astype(str) on a text column: a missing value becomes the text 'nan'.
AsStr(v) == IF v = NaN THEN NanText ELSE v

\* .str.replace(',', '')
RemoveCommas(s) == SelectSeq(s, LAMBDA c : c # ",")

\* .str.replace(r'\.0$', '', regex=True): one trailing ".0" is removed.
StripDotZero(s) ==
  IF Len(s) >= 2 /\ s[Len(s) - 1] = "." /\ s[Len(s)] = "0"
  THEN SubSeq(s, 1, Len(s) - 2)
  ELSE s

AllDigits(s) == \A i \in 1..Len(s) : IsDigit(s[i])

RECURSIVE DigitsValue(_)
DigitsValue(s) ==
  IF s = <<>> THEN 0
  ELSE 10 * DigitsValue(SubSeq(s, 1, Len(s) - 1)) + DigitVal(s[Len(s)])

\* Position of the first "." of s, 0 when there is none.
DotPos(s) ==
  IF \E i \in 1..Len(s) : s[i] = "."
  THEN CHOOSE i \in 1..Len(s) : s[i] = "." /\ \A j \in 1..(i - 1) : s[j] # "."
  ELSE 0

\* The unsigned decimal numbers pd.to_numeric accepts, over the characters
\* of the model: digits, digits "." digits*, "." digits+.
IsUnsignedNumber(s) ==
  LET d == DotPos(s)
      ip == IF d = 0 THEN s ELSE SubSeq(s, 1, d - 1)
      fp == IF d = 0 THEN <<>> ELSE SubSeq(s, d + 1, Len(s))
  IN  /\ AllDigits(ip)
      /\ AllDigits(fp)
      /\ Len(ip) + Len(fp) > 0

IsNumber(s) ==
  IF s # <<>> /\ Head(s) = "-" THEN IsUnsignedNumber(Tail(s)) ELSE IsUnsignedNumber(s)

\* pd.to_numeric(errors='coerce').fillna(0).astype(int): text that is no
\* number gives 0, a fraction is cut off towards zero.
ToNumericInt(s) ==
  IF ~IsNumber(s) THEN 0
  ELSE LET neg == Head(s) = "-"
           u == IF neg THEN Tail(s) ELSE s
           d == DotPos(u)
           ip == IF d = 0 THEN u ELSE SubSeq(u, 1, d - 1)
       IN  IF neg THEN 0 - DigitsValue(ip) ELSE DigitsValue(ip)

\* Lines 26-28 on one value of the rooms_available column.
NormalizeRooms(v) == ToNumericInt(StripDotZero(Strip(RemoveCommas(AsStr(v)))))

RECURSIVE NatToStr(_)
NatToStr(n) ==
  IF n < 10 THEN <<DigitChars[n + 1]>>
  ELSE Append(NatToStr(n \div 10), DigitChars[(n % 10) + 1])

\* How to_csv writes an integer.
IntToStr(n) == IF n < 0 THEN <<"-">> \o NatToStr(0 - n) ELSE NatToStr(n)

\* ------------------------------------------------------------ data frame
\* A data frame is [cols: the column names in order, rows: a sequence of
\* functions from column name to value].  The value of rooms_available is
\* an integer once normalised; every other value is a text or NaN.
HasCol(df, c) == \E i \in 1..Len(df.cols) : df.cols[i] = c

ColSet(cols) == {cols[i] : i \in 1..Len(cols)}

ColIndex(cols, c) == CHOOSE i \in 1..Len(cols) : cols[i] = c

\* A file on disk: present or not, and its lines.
NoFile == [exists |-> FALSE, lines |-> <<>>]

FileOf(lines) == [exists |-> TRUE, lines |-> lines]

\* pd.read_csv(path, dtype=str) on the lines of a file that has a header:
\* every field is its text, except that the NA tokens become NaN.
ReadCsv(lines) ==
  LET cols == lines[1]
  IN  [cols |-> cols,
       rows |-> [i \in 1..(Len(lines) - 1) |->
                  [c \in ColSet(cols) |->
                    LET t == lines[i + 1][ColIndex(cols, c)]
                    IN  IF t \in NaTokens THEN NaN ELSE t]]]

\* Mutant of StatusOf: a count of 0 is reported as available.
StatusOfNonNegative(n) == IF n >= 0 THEN Con ELSE Het

\* Lines 32, 95 and 122: 'còn' if x > 0 else 'hết'.
StatusOf(n) == IF n > 0 THEN Con ELSE Het

\* Lines 22-32: add rooms_available (0) when missing, normalise it, add
\* status (derived from rooms_available) when missing.
Normalize(df) ==
  LET hasRooms == HasCol(df, "rooms_available")
      hasStatus == HasCol(df, "status")
      cols1 == IF hasRooms THEN df.cols ELSE Append(df.cols, "rooms_available")
      cols2 == IF hasStatus THEN cols1 ELSE Append(cols1, "status")
      rooms(r) == IF hasRooms THEN NormalizeRooms(r["rooms_available"])
                  ELSE NormalizeRooms(<<"0">>)
  IN  [cols |-> cols2,
       rows |-> [i \in 1..Len(df.rows) |->
                  [c \in ColSet(cols2) |->
                    IF c = "rooms_available" THEN rooms(df.rows[i])
                    ELSE IF c = "status" /\ ~hasStatus THEN StatusOf(rooms(df.rows[i]))
                    ELSE df.rows[i][c]]]]

NoDf == [cols |-> <<>>, rows |-> <<>>]

\* _safe_read_csv: FileNotFoundError is re-raised at once; a file no
\* encoding parses (here: a file without a header line, pandas'
\* EmptyDataError) raises the last error after the three attempts.
safe_read_csv(f) ==
  IF ~f.exists THEN [err |-> "FileNotFoundError", df |-> NoDf]
  ELSE IF f.lines = <<>> THEN [err |-> "EmptyDataError", df |-> NoDf]
  ELSE [err |-> "none", df |-> Normalize(ReadCsv(f.lines))]

\* df.to_csv(index=False): the header, then one line per row; an integer is
\* written in decimal, a missing value as the empty field.
to_csv(df) ==
  <<df.cols>> \o
  [i \in 1..Len(df.rows) |->
    [j \in 1..Len(df.cols) |->
      LET c == df.cols[j]
      IN  IF c = "rooms_available" THEN IntToStr(df.rows[i][c])
          ELSE IF df.rows[i][c] = NaN THEN <<>>
          ELSE df.rows[i][c]]]

\* --------------------------------------------------------------- matching
\* re.compile of the pattern str.contains is given (regex=True is its
\* default): over the characters of the model, "(" is an unterminated group.
RegexCompiles(pat) == \A i \in 1..Len(pat) : pat[i] # "("

\* Mutant of RegexSearch: the empty pattern is found nowhere.
RegexSearchNonEmpty(pat, text) ==
  /\ pat # <<>>
  /\ \E k \in 0..(Len(text) - Len(pat)) :
       \A j \in 1..Len(pat) : pat[j] = "." \/ pat[j] = text[k + j]

\* re.search(pat, text) for a pattern of literal characters and "." (any
\* character).
RegexSearch(pat, text) ==
  \E k \in 0..(Len(text) - Len(pat)) :
    \A j \in 1..Len(pat) : pat[j] = "." \/ pat[j] = text[k + j]

NameCols(df) == {c \in {"name", "hotel_name"} : HasCol(df, c)}

\* Lines 51-54.
ExactStage(df, target) ==
  [i \in 1..Len(df.rows) |->
    \E c \in NameCols(df) : Strip(AsStr(df.rows[i][c])) = target]

\* Lines 58-61.
LowerStage(df, target) ==
  [i \in 1..Len(df.rows) |->
    \E c \in NameCols(df) :
      StrLower(Strip(AsStr(df.rows[i][c]))) = StrLower(target)]

\* Lines 65-68.
ContainsStage(df, target) ==
  [i \in 1..Len(df.rows) |->
    \E c \in NameCols(df) :
      RegexSearch(StrLower(target), StrLower(Strip(AsStr(df.rows[i][c]))))]

AnyTrue(b) == \E i \in 1..Len(b) : b[i]

\* Mutant of match_rows: the fallback stages run although an earlier stage
\* has matched.
match_rows_all_stages(df, hotel_name) ==
  LET target == Strip(hotel_name)
  IN  [err |-> "none",
       candidates |-> [i \in 1..Len(df.rows) |->
                        \/ ExactStage(df, target)[i]
                        \/ LowerStage(df, target)[i]
                        \/ ContainsStage(df, target)[i]]]

\* _match_rows: the candidates of the first stage that has any; the third
\* stage raises re.error when a name column exists and the pattern does
\* not compile.
match_rows(df, hotel_name) ==
  LET target == Strip(hotel_name)
      exact == ExactStage(df, target)
      lower == LowerStage(df, target)
  IN  IF AnyTrue(exact) THEN [err |-> "none", candidates |-> exact]
      ELSE IF AnyTrue(lower) THEN [err |-> "none", candidates |-> lower]
      ELSE IF NameCols(df) # {} /\ ~RegexCompiles(StrLower(target))
           THEN [err |-> "re.error", candidates |-> <<>>]
      ELSE [err |-> "none", candidates |-> ContainsStage(df, target)]

\* Mutant of FirstIdx: the last matching row is taken.
LastIdx(b) == CHOOSE i \in 1..Len(b) : b[i] /\ \A j \in (i + 1)..Len(b) : ~b[j]

\* df[matches].index[0]
FirstIdx(b) == CHOOSE i \in 1..Len(b) : b[i] /\ \A j \in 1..(i - 1) : ~b[j]

\* ---------------------------------------------------------------- calls
Max(a, b) == IF a >= b THEN a ELSE b

\* Mutant of NewVal: the decrement is not clamped at 0.
NewValNoClamp(kind, current, amount) ==
  IF kind = "decrement" THEN current - amount ELSE current + amount

\* Mutant of NewVal: the increment adds its default of 1, not the amount.
NewValIncByOne(kind, current, amount) ==
  IF kind = "decrement" THEN Max(0, current - amount) ELSE current + 1

\* Lines 93 and 120.
NewVal(kind, current, amount) ==
  IF kind = "decrement" THEN Max(0, current - amount) ELSE current + amount

\* Lines 92-95 and 119-122: the row first_idx gets the new count and the
\* status that goes with it.
Mutate(kind, df, first_idx, amount) ==
  LET new_val == NewVal(kind, df.rows[first_idx]["rooms_available"], amount)
  IN  [df EXCEPT !.rows[first_idx] =
         [@ EXCEPT !["rooms_available"] = new_val, !["status"] = StatusOf(new_val)]]

Raise(type, msg) == [ok |-> FALSE, val |-> 0, err |-> type, msg |-> msg]

Return(v) == [ok |-> TRUE, val |-> v, err |-> "none", msg |-> ""]

\* A call that raises r before it has a table.
Raised(r) ==
  [ret |-> r, df |-> NoDf, loaded |-> NoDf, candidates |-> <<>>, first_idx |-> 0]

\* Lines 84-95 and 112-122: load, match, change the first matching row.
\* loaded is the table as _safe_read_csv returned it, candidates what
\* _match_rows returned, df the table to persist, ret the exception raised
\* or the value the call returns once df is persisted.
LoadMatchMutate(kind, f, hotel_name, amount) ==
  LET rd == safe_read_csv(f)
      m == match_rows(rd.df, hotel_name)
      first_idx == FirstIdx(m.candidates)
      new == Mutate(kind, rd.df, first_idx, amount)
  IN  IF rd.err # "none" THEN Raised(Raise(rd.err, "read"))
      ELSE IF m.err # "none"
           THEN [Raised(Raise(m.err, "pattern")) EXCEPT !.loaded = rd.df]
      ELSE IF ~AnyTrue(m.candidates)
           THEN [Raised(Raise("ValueError", "No matching hotel found"))
                   EXCEPT !.loaded = rd.df, !.candidates = m.candidates]
      ELSE [ret |-> Return(new.rows[first_idx]["rooms_available"]), df |-> new,
            loaded |-> rd.df, candidates |-> m.candidates, first_idx |-> first_idx]

\* Mutant of Prepare: the file is looked for before the amount is checked.
PrepareExistsFirst(kind, f, hotel_name, amount) ==
  IF ~f.exists THEN Raised(Raise("FileNotFoundError", "Hotels CSV not found"))
  ELSE IF amount <= 0 THEN Raised(Raise("ValueError", "must be positive"))
  ELSE LoadMatchMutate(kind, f, hotel_name, amount)

\* Mutant of Prepare: a path that does not exist is taken for a table
\* without rows.
PrepareMissingIsEmpty(kind, f, hotel_name, amount) ==
  IF amount <= 0 THEN Raised(Raise("ValueError", "must be positive"))
  ELSE IF ~f.exists THEN Raised(Raise("ValueError", "No matching hotel found"))
  ELSE LoadMatchMutate(kind, f, hotel_name, amount)

\* Lines 78-95 and 107-122: everything a call does before the writer: the
\* amount check, the existence check, then load, match and change.
Prepare(kind, f, hotel_name, amount) ==
  IF amount <= 0 THEN Raised(Raise("ValueError", "must be positive"))
  ELSE IF ~f.exists THEN Raised(Raise("FileNotFoundError", "Hotels CSV not found"))
  ELSE LoadMatchMutate(kind, f, hotel_name, amount)

\* ------------------------------------------------------------------ state
TargetPath == "hotels.csv"

Procs == {1, 2}

\* The name tempfile.mkstemp gives the temporary file of caller p.
TmpPath(p) == IF p = 1 THEN "tmp1.csv" ELSE "tmp2.csv"

Paths == {TargetPath} \cup {TmpPath(p) : p \in Procs}

VARIABLES
  files,    \* the directory of the CSV file: path -> file
  callers,  \* the callers that run the step-by-step calls
  pc,       \* where each caller is in its call
  call,     \* the arguments of each caller's call
  df,       \* the data frame each caller holds
  ret,      \* what each caller's call returned or raised
  pre,      \* history: the target file as each caller's call read it
  hist      \* history: the calls made one after the other, oldest first

vars == <<files, callers, pc, call, df, ret, pre, hist>>

\* ----------------------------------------------------------------- inputs
TargetNames == { <<" ", "G", "h">> }

Amounts == {0 - 1, 0, 1, MaxAmount}

Kinds == {"decrement", "increment"}

\* The rows a file is made of: name, hotel_name, rooms_available, status.
RowValues ==
  { [name |-> <<"G", "h", " ">>, hotel_name |-> <<"N", "A">>,
     rooms_available |-> <<"2">>, status |-> Con],
    [name |-> <<"g", "h">>, hotel_name |-> <<"G", "h", " ">>,
     rooms_available |-> <<"1", ",", "2", "0", "0", ".", "0">>, status |-> Het],
    [name |-> <<"g", "h", "x">>, hotel_name |-> <<"g", "h", "x">>,
     rooms_available |-> <<"-", "5">>, status |-> Con],
    [name |-> <<"N", "A">>, hotel_name |-> <<"g", "h">>,
     rooms_available |-> <<"3", ".", "7">>, status |-> <<>>] }

Headers ==
  { <<"name", "rooms_available">>,
    <<"name", "hotel_name", "rooms_available", "status">>,
    <<"hotel_name", "status">> }

RowSeqs == UNION { [1..n -> RowValues] : n \in 0..MaxRows }

\* The lines of the file with header h and rows rs.
LinesOf(h, rs) ==
  <<h>> \o [i \in 1..Len(rs) |-> [j \in 1..Len(h) |-> rs[i][h[j]]]]

InputFiles == {NoFile} \cup {FileOf(LinesOf(h, rs)) : h \in Headers, rs \in RowSeqs}

NoCall == [kind |-> "none", hotel_name |-> <<>>, amount |-> 0, new_val |-> 0]

NoRet == [ok |-> FALSE, val |-> 0, err |-> "none", msg |-> ""]

InitCommon ==
  /\ \E f \in InputFiles :
       files = [q \in Paths |-> IF q = TargetPath THEN f ELSE NoFile]
  /\ pc = [p \in Procs |-> "idle"]
  /\ call = [p \in Procs |-> NoCall]
  /\ df = [p \in Procs |-> NoDf]
  /\ ret = [p \in Procs |-> NoRet]
  /\ pre = [p \in Procs |-> NoFile]
  /\ hist = <<>>

\* Calls made one after the other, each to its end.
Init == InitCommon /\ callers = {}

\* ---------------------------------------------------------------- actions
\* _atomic_write_csv run to its end without a file-system error: the
\* temporary file is created, written and renamed over the target.
atomic_write_csv(d, f) == FileOf(to_csv(d))

\* A whole call (lines 72-100, 102-126) on the target file f: what
\* Prepare gives, and the target file afterwards.
RunCall(kind, f, hotel_name, amount) ==
  LET p == Prepare(kind, f, hotel_name, amount)
  IN  [ret |-> p.ret, loaded |-> p.loaded, candidates |-> p.candidates,
       first_idx |-> p.first_idx,
       file |-> IF p.ret.ok THEN atomic_write_csv(p.df, f) ELSE f]

\* One entry of hist: the arguments of a call, the file before and after
\* it, the table it loaded, the rows it matched, the row it changed and
\* what it returned or raised.
CallRecord(kind, hotel_name, amount, f, r) ==
  [kind |-> kind, hotel_name |-> hotel_name, amount |-> amount,
   pre |-> f, loaded |-> r.loaded, candidates |-> r.candidates,
   first_idx |-> r.first_idx, ret |-> r.ret, post |-> r.file]

\* The call r made on the target file takes effect and enters hist.
Record(kind, hotel_name, amount, r) ==
  /\ files' = [files EXCEPT ![TargetPath] = r.file]
  /\ hist' = Append(hist, CallRecord(kind, hotel_name, amount, files[TargetPath], r))
  /\ UNCHANGED <<callers, pc, call, df, ret, pre>>

decrement_room_availability ==
  \E hotel_name \in TargetNames, decrement \in Amounts :
    /\ callers = {}
    /\ Len(hist) < MaxCalls
    /\ Record("decrement", hotel_name, decrement,
              RunCall("decrement", files[TargetPath], hotel_name, decrement))

increment_room_availability ==
  \E hotel_name \in TargetNames, increment \in Amounts :
    /\ callers = {}
    /\ Len(hist) < MaxCalls
    /\ Record("increment", hotel_name, increment,
              RunCall("increment", files[TargetPath], hotel_name, increment))

Next == decrement_room_availability \/ increment_room_availability

Spec == Init /\ [][Next]_vars

\* ------------------------------------------- one call, any hotel name
\* Hotel names as a caller may pass them: blank, a plain letter, with the
\* regular-expression characters "." and "(".
PatternNames == { <<" ">>, <<"h">>, <<"g", ".">>, <<"(">> }

PatternRows ==
  { [name |-> <<"g", "h">>, hotel_name |-> <<"g", "h">>,
     rooms_available |-> <<"2">>, status |-> Con],
    [name |-> <<" ">>, hotel_name |-> <<" ">>,
     rooms_available |-> <<"1">>, status |-> Con],
    [name |-> <<"g", ".">>, hotel_name |-> <<"g", ".">>,
     rooms_available |-> <<"0">>, status |-> Het],
    [name |-> <<"N", "A">>, hotel_name |-> <<"N", "A">>,
     rooms_available |-> <<"5">>, status |-> Con] }

PatternHeaders ==
  { <<"name", "rooms_available">>,
    <<"hotel_name", "status">>,
    <<"rooms_available", "status">> }

PatternFiles ==
  {FileOf(LinesOf(h, rs)) :
     h \in PatternHeaders, rs \in UNION { [1..n -> PatternRows] : n \in 0..MaxRows }}

\* One call, made to its end, on a file of PatternFiles.
InitNames ==
  /\ \E f \in PatternFiles :
       files = [q \in Paths |-> IF q = TargetPath THEN f ELSE NoFile]
  /\ callers = {}
  /\ pc = [p \in Procs |-> "idle"]
  /\ call = [p \in Procs |-> NoCall]
  /\ df = [p \in Procs |-> NoDf]
  /\ ret = [p \in Procs |-> NoRet]
  /\ pre = [p \in Procs |-> NoFile]
  /\ hist = <<>>

decrement_any_name ==
  \E hotel_name \in PatternNames, decrement \in Amounts :
    /\ callers = {}
    /\ hist = <<>>
    /\ Record("decrement", hotel_name, decrement,
              RunCall("decrement", files[TargetPath], hotel_name, decrement))

increment_any_name ==
  \E hotel_name \in PatternNames, increment \in Amounts :
    /\ callers = {}
    /\ hist = <<>>
    /\ Record("increment", hotel_name, increment,
              RunCall("increment", files[TargetPath], hotel_name, increment))

NextNames == decrement_any_name \/ increment_any_name

SpecNames == InitNames /\ [][NextNames]_vars

\* ------------------------------------------------- a call, step by step
\* One caller, its call taken step by step, any step of the writer failing.
InitSteps == InitCommon /\ callers = {1}

\* Mutant of WritePath: the table is written straight to the target path.
WritePathTarget(p) == TargetPath

\* Line 42: the path df.to_csv writes to, the temporary file.
WritePath(p) == TmpPath(p)

Finish(p, r) ==
  /\ ret' = [ret EXCEPT ![p] = r]
  /\ pc' = [pc EXCEPT ![p] = "done"]

\* Lines 78-95 (107-122): the checks, the load, the match and the change
\* of the row in memory; the target file is read in one piece.
Begin(p, kind, hotel_name, amount) ==
  /\ pc[p] = "idle"
  /\ LET r == Prepare(kind, files[TargetPath], hotel_name, amount)
     IN  /\ call' = [call EXCEPT ![p] =
                      [kind |-> kind, hotel_name |-> hotel_name, amount |-> amount,
                       new_val |-> r.ret.val]]
         /\ pre' = [pre EXCEPT ![p] = files[TargetPath]]
         /\ df' = [df EXCEPT ![p] = r.df]
         /\ IF r.ret.ok
            THEN pc' = [pc EXCEPT ![p] = "mkstemp"] /\ ret' = ret
            ELSE Finish(p, r.ret)
  /\ UNCHANGED <<files, callers, hist>>

\* Lines 38-40: mkstemp creates the empty temporary file, beside the target.
Mkstemp(p) ==
  /\ pc[p] = "mkstemp"
  /\ files' = [files EXCEPT ![TmpPath(p)] = FileOf(<<>>)]
  /\ pc' = [pc EXCEPT ![p] = "to_csv"]
  /\ UNCHANGED <<callers, call, df, ret, pre, hist>>

\* Line 39 raises OSError: no temporary file is made.
MkstempFails(p) ==
  /\ pc[p] = "mkstemp"
  /\ Finish(p, Raise("OSError", "mkstemp"))
  /\ UNCHANGED <<files, callers, call, df, pre, hist>>

\* Line 42, first part: to_csv opens its path for writing, which empties it.
ToCsvOpen(p) ==
  /\ pc[p] = "to_csv"
  /\ files' = [files EXCEPT ![WritePath(p)] = FileOf(<<>>)]
  /\ pc' = [pc EXCEPT ![p] = "write"]
  /\ UNCHANGED <<callers, call, df, ret, pre, hist>>

\* Line 42, going on: to_csv writes the next line; after the last one the
\* file is closed.
ToCsvWrite(p) ==
  /\ pc[p] = "write"
  /\ LET out == to_csv(df[p])
         n == Len(files[WritePath(p)].lines)
     IN  /\ n < Len(out)
         /\ files' = [files EXCEPT ![WritePath(p)] = FileOf(Append(@.lines, out[n + 1]))]
         /\ pc' = [pc EXCEPT ![p] = IF n + 1 = Len(out) THEN "replace" ELSE "write"]
  /\ UNCHANGED <<callers, call, df, ret, pre, hist>>

\* Line 42 raises OSError (disk full, ...): what was written stays.
ToCsvFails(p) ==
  /\ pc[p] \in {"to_csv", "write"}
  /\ Finish(p, Raise("OSError", "to_csv"))
  /\ UNCHANGED <<files, callers, call, df, pre, hist>>

\* Line 43 and the return (100, 126): os.replace renames the temporary
\* file over the target in one step.
Replace(p) ==
  /\ pc[p] = "replace"
  /\ files' = [files EXCEPT ![TargetPath] = files[TmpPath(p)], ![TmpPath(p)] = NoFile]
  /\ Finish(p, Return(call[p].new_val))
  /\ UNCHANGED <<callers, call, df, pre, hist>>

\* Line 43 raises OSError.
ReplaceFails(p) ==
  /\ pc[p] = "replace"
  /\ Finish(p, Raise("OSError", "replace"))
  /\ UNCHANGED <<files, callers, call, df, pre, hist>>

NextSteps ==
  \/ \E p \in callers, k \in Kinds, n \in TargetNames, a \in Amounts : Begin(p, k, n, a)
  \/ \E p \in callers : Mkstemp(p)
  \/ \E p \in callers : MkstempFails(p)
  \/ \E p \in callers : ToCsvOpen(p)
  \/ \E p \in callers : ToCsvWrite(p)
  \/ \E p \in callers : ToCsvFails(p)
  \/ \E p \in callers : Replace(p)
  \/ \E p \in callers : ReplaceFails(p)

SpecSteps == InitSteps /\ [][NextSteps]_vars

\* ------------------------------------------ two calls on the same path
\* The files two concurrent callers start from: one row under each header.
ConcFiles == {FileOf(LinesOf(h, rs)) : h \in Headers, rs \in [1..1 -> RowValues]}

\* Two callers (threads or processes) call on the same path; the module
\* takes no lock, so their steps interleave in any order.
InitConc ==
  /\ \E f \in ConcFiles :
       files = [q \in Paths |-> IF q = TargetPath THEN f ELSE NoFile]
  /\ callers = Procs
  /\ pc = [p \in Procs |-> "idle"]
  /\ call = [p \in Procs |-> NoCall]
  /\ df = [p \in Procs |-> NoDf]
  /\ ret = [p \in Procs |-> NoRet]
  /\ pre = [p \in Procs |-> NoFile]
  /\ hist = <<>>

SpecConc == InitConc /\ [][NextSteps]_vars

\* ================================================================ claims
\* What the claims speak of, read from the files themselves.
NumRows(f) == Len(f.lines) - 1

FileHasCol(f, c) == \E j \in 1..Len(f.lines[1]) : f.lines[1][j] = c

Field(f, i, c) == f.lines[i + 1][ColIndex(f.lines[1], c)]

IsNatText(t) == t # <<>> /\ AllDigits(t)

TextInt(t) == IF Head(t) = "-" THEN 0 - DigitsValue(Tail(t)) ELSE DigitsValue(t)

RowConsistent(f, i) ==
  (Field(f, i, "status") = Con) <=> (TextInt(Field(f, i, "rooms_available")) > 0)

\* Every call is the last call of the state it ends in, so a statement
\* about the last call of every reachable state is one about every call.
Called == hist # <<>>

Last == hist[Len(hist)]

Succeeded == Called /\ Last.ret.ok

Rooms(d, i) == d.rows[i]["rooms_available"]

Status(d, i) == d.rows[i]["status"]

\* The table as it loads again from the file a call left.
LoadedAfter(c) == safe_read_csv(c.post).df

\* C2: after a successful call the mutated row's rooms_available in the
\* persisted file is an integer >= 0 and its status is the available token
\* exactly when rooms_available > 0.
C2_MutatedRowNonNegative ==
  Succeeded =>
    /\ IsNatText(Field(Last.post, Last.first_idx, "rooms_available"))
    /\ RowConsistent(Last.post, Last.first_idx)

\* C3 as stated: after a successful call every row of the persisted table
\* has the available status exactly when its rooms_available > 0.
C3_EveryRowConsistent ==
  Succeeded => \A i \in 1..NumRows(Last.post) : RowConsistent(Last.post, i)

\* C3 as amended: after a successful call the mutated row has the available
\* status exactly when its rooms_available > 0, and so has every row when
\* the file had no status column before the call.
C3_StatusConsistent ==
  Succeeded =>
    /\ RowConsistent(Last.post, Last.first_idx)
    /\ ~FileHasCol(Last.pre, "status") =>
         \A i \in 1..NumRows(Last.post) : RowConsistent(Last.post, i)

\* A successful call on a file without a status column, with more rows
\* than the mutated one, that leaves the mutated row sold out.
C3_Witness ==
  /\ Succeeded
  /\ ~FileHasCol(Last.pre, "status")
  /\ NumRows(Last.post) >= 2
  /\ Last.ret.val = 0

\* C4: a successful decrement returns max(0, c - amount) and a successful
\* increment returns c + amount, where c is the loaded availability of the
\* first matched row, and the returned integer is the rooms_available value
\* persisted for that row.
C4_ReturnedValue ==
  Succeeded =>
    LET cur == Rooms(Last.loaded, Last.first_idx)
        expected == IF Last.kind = "decrement"
                    THEN (IF cur - Last.amount > 0 THEN cur - Last.amount ELSE 0)
                    ELSE cur + Last.amount
    IN  /\ Last.ret.val = expected
        /\ TextInt(Field(Last.post, Last.first_idx, "rooms_available")) = Last.ret.val

\* A decrement that was clamped at 0 has returned, and after it an
\* increment.
C4_Witness ==
  /\ Len(hist) >= 2 /\ Succeeded /\ Last.kind = "increment"
  /\ LET c == hist[Len(hist) - 1]
     IN  /\ c.ret.ok /\ c.kind = "decrement"
         /\ Rooms(c.loaded, c.first_idx) - c.amount < 0

\* The last two calls are a successful decrement and a successful increment
\* with the same hotel name and amount.
First == hist[Len(hist) - 1]

RoundTrip ==
  /\ Len(hist) >= 2
  /\ First.kind = "decrement" /\ Last.kind = "increment"
  /\ First.hotel_name = Last.hotel_name
  /\ First.amount = Last.amount
  /\ First.ret.ok /\ Last.ret.ok

Original == Rooms(First.loaded, First.first_idx)

\* C5 as stated: after a decrement and an increment with the same name and
\* an amount <= the row's original availability, the row's availability and
\* its status equal their original loaded values.
C5_RoundTripWithStatus ==
  (RoundTrip /\ First.amount <= Original) =>
    LET after == LoadedAfter(Last)
    IN  /\ Rooms(after, First.first_idx) = Original
        /\ Status(after, First.first_idx) = Status(First.loaded, First.first_idx)

\* C5 as amended: after a decrement and an increment with the same name and
\* an amount <= the row's original availability, the row's availability
\* equals its original loaded value and its status is the available token.
C5_RoundTrip ==
  (RoundTrip /\ First.amount <= Original) =>
    LET after == LoadedAfter(Last)
    IN  /\ Rooms(after, First.first_idx) = Original
        /\ Status(after, First.first_idx) = Con

\* A round trip whose decrement took the row down to 0.
C5_Witness == RoundTrip /\ First.amount = Original /\ First.ret.val = 0

\* C6: when amount > the row's original availability, the decrement leaves
\* the row at 0 with the sold-out status, and the increment with the same
\* amount leaves it at amount, which is not the original value.
C6_ClampBreaksRoundTrip ==
  (RoundTrip /\ First.amount > Original) =>
    LET between == LoadedAfter(First)
        after == LoadedAfter(Last)
    IN  /\ Rooms(between, First.first_idx) = 0
        /\ Status(between, First.first_idx) = Het
        /\ Rooms(after, First.first_idx) = First.amount
        /\ Rooms(after, First.first_idx) # Original

\* A round trip with an amount above the original availability.
C6_Witness == RoundTrip /\ First.amount > Original

\* The names a row goes by, as the matcher reads them from the file: the
\* trimmed name and hotel_name fields, an NA field reading 'nan'.
NameTexts(f, i) ==
  {Strip(IF Field(f, i, col) \in NaTokens THEN NanText ELSE Field(f, i, col)) :
     col \in {n \in {"name", "hotel_name"} : FileHasCol(f, n)}}

ExactRows(f, n) == {i \in 1..NumRows(f) : Strip(n) \in NameTexts(f, i)}

LowerRows(f, n) ==
  {i \in 1..NumRows(f) : \E t \in NameTexts(f, i) : StrLower(t) = StrLower(Strip(n))}

IsSubstring(a, b) ==
  \E k \in 0..(Len(b) - Len(a)) : SubSeq(b, k + 1, k + Len(a)) = a

SubstringRows(f, n) ==
  {i \in 1..NumRows(f) :
     \E t \in NameTexts(f, i) : IsSubstring(StrLower(Strip(n)), StrLower(t))}

\* The rows of the earliest stage that matches any.
WinningRows(f, n) ==
  IF ExactRows(f, n) # {} THEN ExactRows(f, n)
  ELSE IF LowerRows(f, n) # {} THEN LowerRows(f, n)
  ELSE SubstringRows(f, n)

\* The last call got as far as the matcher, and the matcher returned.
Matched ==
  /\ Called /\ Last.amount > 0 /\ Last.pre.exists /\ Last.pre.lines # <<>>
  /\ Last.ret.err # "re.error"

Chosen(c) == {i \in 1..Len(c.candidates) : c.candidates[i]}

\* C7: _match_rows returns exactly the rows of the earliest stage that
\* matches any row, in the order exact, case-insensitive, substring; a row
\* matching only at a later stage is not returned when an earlier stage
\* matches some row.
C7_EarliestStageWins ==
  Matched => Chosen(Last) = WinningRows(Last.pre, Last.hotel_name)

\* A call on a file whose second row matches exactly while its first row
\* matches only without regard to case.
C7_Witness ==
  /\ Succeeded
  /\ ExactRows(Last.pre, Last.hotel_name) = {2}
  /\ 1 \in LowerRows(Last.pre, Last.hotel_name)

Lowest(S) == CHOOSE i \in S : \A j \in S : i <= j

\* C8: when several rows match at the winning stage, a successful call
\* gives the new availability to the matching row lowest in file order and
\* every other matching row keeps its availability and status.
C8_FirstMatchOnly ==
  Succeeded =>
    LET W == WinningRows(Last.pre, Last.hotel_name)
        after == LoadedAfter(Last)
    IN  Cardinality(W) >= 2 =>
          /\ Rooms(after, Lowest(W)) = Last.ret.val
          /\ \A i \in W \ {Lowest(W)} :
               /\ Rooms(after, i) = Rooms(Last.loaded, i)
               /\ Status(after, i) = Status(Last.loaded, i)

\* A successful increment on a file where two rows match at the winning
\* stage.
C8_Witness ==
  /\ Succeeded /\ Last.kind = "increment"
  /\ Cardinality(WinningRows(Last.pre, Last.hotel_name)) >= 2

\* C9: a successful call changes only the rooms_available and status fields
\* of the target row: the columns, the number and order of the rows and
\* every other field are in the file after the call as they were before.
C9_OnlyTargetFieldsChange ==
  Succeeded =>
    /\ Last.post.lines[1] = Last.pre.lines[1]
    /\ NumRows(Last.post) = NumRows(Last.pre)
    /\ \A i \in 1..NumRows(Last.pre) : \A j \in 1..Len(Last.pre.lines[1]) :
         \/ i = Last.first_idx /\ Last.pre.lines[1][j] \in {"rooms_available", "status"}
         \/ Last.post.lines[i + 1][j] = Last.pre.lines[i + 1][j]

\* C1: at every step of a call, also of one that fails in the writer, the
\* target path holds either the complete table the call found or the
\* complete table the call leaves; never a part of a table, never an empty
\* file.
C1_TargetPreOrPost ==
  \A p \in callers :
    pc[p] # "idle" =>
      files[TargetPath] \in
        {pre[p], RunCall(call[p].kind, pre[p], call[p].hotel_name, call[p].amount).file}

\* A call has failed in to_csv with its table written in part.
C1_Witness ==
  \E p \in callers :
    /\ pc[p] = "done" /\ ret[p] = Raise("OSError", "to_csv")
    /\ Len(files[WritePath(p)].lines) \in 1..(Len(to_csv(df[p])) - 1)

\* C10: a call with amount <= 0 fails with the invalid-argument error and
\* leaves the target path and the rest of its directory as they were,
\* whether the path exists or not and whether the name matches or not.
C10_AmountCheckedFirst ==
  \A p \in callers :
    (pc[p] # "idle" /\ call[p].amount <= 0) =>
      /\ pc[p] = "done"
      /\ ret[p] = Raise("ValueError", "must be positive")
      /\ files = [q \in Paths |-> IF q = TargetPath THEN pre[p] ELSE NoFile]

\* A call with amount <= 0 on a path that does not exist has ended.
C10_Witness ==
  \E p \in callers : pc[p] = "done" /\ call[p].amount <= 0 /\ ~pre[p].exists

\* C11: a call with amount > 0 on a path that does not exist fails with the
\* not-found error and creates no file: neither the target path nor any
\* temporary file exists afterwards.
C11_NotFoundCreatesNothing ==
  \A p \in callers :
    (pc[p] # "idle" /\ call[p].amount > 0 /\ ~pre[p].exists) =>
      /\ pc[p] = "done"
      /\ ~ret[p].ok /\ ret[p].err = "FileNotFoundError"
      /\ \A q \in Paths : ~files[q].exists

\* A decrement and an increment with amount > 0 on a missing path: one of
\* them has ended.
C11_Witness ==
  \E p \in callers :
    /\ pc[p] = "done" /\ call[p].amount > 0 /\ ~pre[p].exists
    /\ call[p].kind \in Kinds

\* The caller's call has failed inside _atomic_write_csv.
WriterFailed(p) == pc[p] = "done" /\ ~ret[p].ok /\ ret[p].err = "OSError"

\* C13: when the persist step fails at any of its sub-steps (creating the
\* temporary file, writing the table to it, the replace), the call fails
\* with an error and the target file holds its complete pre-call content.
C13_FailedPersistKeepsTarget ==
  \A p \in callers :
    (pc[p] = "done" /\ df[p] # NoDf /\ ~ret[p].ok) =>
      /\ ret[p].err # "none"
      /\ files[TargetPath] = pre[p]

\* The replace has failed after a table that differs from the target's
\* was written in full to the temporary file.
C13_Witness ==
  \E p \in callers :
    /\ WriterFailed(p) /\ ret[p].msg = "replace"
    /\ files[TmpPath(p)].lines = to_csv(df[p])
    /\ files[TmpPath(p)] # files[TargetPath]

\* C19: after a call has ended, with its value or with an error raised at
\* any step, also inside the persist step once the temporary file exists,
\* no temporary file made by that call remains.
C19_NoTempFileRemains ==
  \A p \in callers : pc[p] = "done" => ~files[TmpPath(p)].exists

\* The call got as far as the matcher: amount > 0 and a file that parses.
ReachedMatcher(c) == c.amount > 0 /\ c.pre.exists /\ c.pre.lines # <<>>

\* C12: when no row matches the hotel name at any of the three stages, the
\* call fails with the no-match error and the file is left exactly as it
\* was.
C12_NoMatchLeavesFile ==
  (Called /\ ReachedMatcher(Last) /\ WinningRows(Last.pre, Last.hotel_name) = {}) =>
    /\ Last.ret = Raise("ValueError", "No matching hotel found")
    /\ Last.post = Last.pre

\* C17: the substring stage matches a row exactly when the lower-cased
\* trimmed hotel name occurs as a literal substring of one of the row's
\* lower-cased trimmed names, whatever characters the hotel name has, and
\* it never raises.
C17_LiteralSubstring ==
  ( /\ Called /\ ReachedMatcher(Last)
    /\ ExactRows(Last.pre, Last.hotel_name) = {}
    /\ LowerRows(Last.pre, Last.hotel_name) = {} ) =>
    /\ Last.ret.err # "re.error"
    /\ Chosen(Last) = SubstringRows(Last.pre, Last.hotel_name)

\* The call was given a hotel name that is empty once trimmed, on a table
\* with rows and a name or hotel_name column.
EmptyName(c) ==
  /\ ReachedMatcher(c)
  /\ Strip(c.hotel_name) = <<>>
  /\ NumRows(c.pre) >= 1
  /\ FileHasCol(c.pre, "name") \/ FileHasCol(c.pre, "hotel_name")

\* C18 as stated: a hotel name that is empty once trimmed never gives the
\* no-match error on such a table, and the call changes the first row of
\* the file.
C18_EmptyNameMutatesFirstRow ==
  (Called /\ EmptyName(Last)) => Last.ret.ok /\ Last.first_idx = 1

\* C18 as amended: a hotel name that is empty once trimmed never gives the
\* no-match error on such a table: the substring stage would match every
\* row, and the call changes the first row whose trimmed name is empty,
\* or the first row of the file when no row has such a name.
C18_EmptyNameAlwaysMatches ==
  (Called /\ EmptyName(Last)) =>
    LET E == ExactRows(Last.pre, Last.hotel_name)
    IN  /\ Last.ret.ok
        /\ \A i \in 1..NumRows(Last.pre) :
             ContainsStage(Last.loaded, Strip(Last.hotel_name))[i]
        /\ Last.first_idx = Lowest(IF E # {} THEN E ELSE 1..NumRows(Last.pre))

\* A call with a blank hotel name has changed the second row of the file,
\* the first one whose name is blank.
C18_Witness ==
  /\ Called /\ EmptyName(Last) /\ Last.ret.ok
  /\ Last.first_idx = 2
  /\ ExactRows(Last.pre, Last.hotel_name) # {}

\* Which of the causes of failure a call has met first, told from its
\* arguments and the file it found.
Cause(c) ==
  IF c.amount <= 0 THEN "non-positive amount"
  ELSE IF ~c.pre.exists THEN "file not found"
  ELSE IF c.pre.lines = <<>> THEN "unparsable file"
  ELSE IF WinningRows(c.pre, c.hotel_name) = {} THEN "no matching hotel"
  ELSE "none"

\* C14: two calls that fail for different causes (file not found,
\* unparsable file, no matching hotel, non-positive amount, file-system
\* write failure) raise errors of different kinds.
C14_DistinctErrorKinds ==
  ( /\ Len(hist) >= 2
    /\ ~First.ret.ok /\ ~Last.ret.ok
    /\ Cause(First) # Cause(Last) ) =>
    First.ret.err # Last.ret.err

\* The raw rooms_available text with the commas removed, trimmed and
\* without one trailing ".0".
CleanedRooms(t) == StripDotZero(Strip(RemoveCommas(t)))

IsIntegerText(t) ==
  IF t # <<>> /\ Head(t) = "-" THEN IsNatText(Tail(t)) ELSE IsNatText(t)

\* The integer the cleaned text of row i parses to, 0 when the column is
\* missing or the cleaned text is no integer.
ExpectedRooms(f, i) ==
  IF ~FileHasCol(f, "rooms_available") THEN 0
  ELSE LET t == CleanedRooms(Field(f, i, "rooms_available"))
       IN  IF IsIntegerText(t) THEN TextInt(t) ELSE 0

\* C16: for every raw rooms_available text the loader yields the integer
\* its cleaned text (commas removed, trimmed, one trailing ".0" stripped)
\* parses to, and 0 when the value is missing or the cleaned text does not
\* parse as an integer; the loaded value is always an integer >= 0.
C16_LoaderYieldsNonNegativeInteger ==
  (Called /\ ReachedMatcher(Last)) =>
    \A i \in 1..NumRows(Last.pre) :
      /\ Rooms(Last.loaded, i) = ExpectedRooms(Last.pre, i)
      /\ Rooms(Last.loaded, i) >= 0

\* The file a caller's call persists, computed from the snapshot it read.
Post(p) == RunCall(call[p].kind, pre[p], call[p].hotel_name, call[p].amount).file

\* C15: two calls on the same path are not serialized, and in every
\* interleaving the target file is at all times one call's complete table:
\* the file some call read or the table some call persists from its own
\* snapshot; once both calls have returned their values it is the table
\* one of them persisted.
C15_TargetIsOneCallsTable ==
  /\ (\E p \in callers : pc[p] # "idle") =>
       \E p \in callers : pc[p] # "idle" /\ files[TargetPath] \in {pre[p], Post(p)}
  /\ (\A p \in callers : pc[p] = "done" /\ ret[p].ok) =>
       \E p \in callers : files[TargetPath] = Post(p)

\* The lost update: both calls read the same file, both have returned
\* their values, and the target is what one of them made of that file,
\* not what the two calls give one after the other in either order.
C15_Witness ==
  /\ callers = Procs
  /\ \A p \in Procs : pc[p] = "done" /\ ret[p].ok /\ Post(p) # pre[p]
  /\ pre[1] = pre[2]
  /\ \E p \in Procs : files[TargetPath] = Post(p)
  /\ \A p \in Procs : \A q \in Procs \ {p} :
       files[TargetPath] #
         RunCall(call[q].kind, Post(p), call[q].hotel_name, call[q].amount).file

====
